---- MODULE Spec2Model ----
(***************************************************************************)
(* Model of src/src/main.rs: the terminal dashboard's event loop (run_app), *)
(* its table views (load_table, edit_table, scroll_up, scroll_down), the    *)
(* bill aggregator (BillState) and the weather channel.                     *)
(*                                                                          *)
(* Modelling conventions:                                                   *)
(*  - a path of the bill directory is a number of Paths; the order of the   *)
(*    numbers is the order of PathBuf (list.sort() in refresh_files);       *)
(*  - what the file system, the editor process and the prompt return is an  *)
(*    input of the step that asks for it, drawn with \E;                    *)
(*  - amounts are fixed-point integers: hundredths in the ledger and the   *)
(*    report, units of 10^-AmountScale where amount texts are parsed, so    *)
(*    that every amount text has an exact value; the rounding of f64 is     *)
(*    not modelled;                                                         *)
(*  - in a direction marker "Z" stands for the expense ideograph, "S" for   *)
(*    the income ideograph; in an amount text "y" stands for any character  *)
(*    that is neither a digit nor `.` nor `-`;                              *)
(*  - text is a sequence of lines, a line a sequence of one-character       *)
(*    strings;                                                              *)
(*  - terminal.clear, terminal.draw, event::poll and event::read of the    *)
(*    loop body may fail, and the `?` after them then ends run_app; the     *)
(*    calls on the terminal inside open_in_neovim and                       *)
(*    prompt_export_directory (execute!, enable/disable_raw_mode) are taken *)
(*    to succeed; process spawning and file I/O may fail.                   *)
(***************************************************************************)
EXTENDS Integers, Sequences, FiniteSets, TLC

\* ---------------------------------------------------------------- bounds
NumPaths == 2          \* candidate bill files the directory may ever hold
MaxRows == 11          \* table lines of the long markdown source
MaxInFlight == 2       \* weather workers running plus results queued
MaxAmountLen == 3      \* characters of the amount text of a bill row
MaxMarkerLen == 2      \* characters of the direction marker of a bill row
MaxEntries == 2        \* entries of each sequence of a reported aggregate
MaxCells == 2          \* cells of a line given to parse_table
MaxLines == 2          \* lines of a text given to parse_table

\* ------------------------------------------------------ program constants
SCROLL_WINDOW == 10
MenuLen == 3           \* MenuItem::all().len()

Paths == 1..NumPaths

VARIABLES
    state,          \* AppState
    selected,       \* menu cursor (0-based index into MenuItem::all())
    last_msg,       \* Option<String> status line
    force_redraw,   \* bool
    todo,           \* Vec<Vec<String>> row buffer of TodoView
    todo_scroll,    \* usize
    cyber,          \* row buffer of CyberView
    cyber_scroll,   \* usize
    files,          \* BillState.files (catalog)
    processed,      \* BillState.processed
    aggregate,      \* BillState.aggregate
    weather_cards,  \* cards shown in the weather panel
    chan,           \* mpsc channel weather_tx -> weather_rx
    workers,        \* detached fetch threads that have not sent yet
    raw_mode,       \* terminal in raw mode
    alt_screen,     \* terminal on the alternate screen
    pc,             \* position of run_app in its loop body; "done" after the
                    \* break, "failed" after a `?` returned an error
    input,          \* what this iteration's poll/read and I/O returned
    ingests,        \* history: per path, how often its report was appended
    call            \* a function applied on its own: its arguments and result

vars == <<state, selected, last_msg, force_redraw, todo, todo_scroll, cyber,
          cyber_scroll, files, processed, aggregate, weather_cards, chan,
          workers, raw_mode, alt_screen, pc, input, ingests, call>>

tableVars == <<todo, todo_scroll, cyber, cyber_scroll>>
billVars == <<files, processed, aggregate, ingests>>
weatherVars == <<weather_cards, chan, workers>>
termVars == <<raw_mode, alt_screen>>
appVars == <<state, selected, last_msg, force_redraw, tableVars, billVars,
             weatherVars, termVars, pc, input>>

\* ------------------------------------------------------------- messages
\* a status line: its kind, the count it shows and the net text it shows
NoNet == <<"", 0>>
Msg(kind, n, net) == [kind |-> kind, n |-> n, net |-> net]
NoMsg == Msg("none", 0, NoNet)
\* the event of this iteration: "press" for a pressed key and "idle" for a
\* poll timeout, a released or repeated key and a non-key event; the key, what
\* the I/O of the handler returned and, for `a` in BillView, the paths handed
\* to the bill parsers and the kind of the status line the key was pressed on;
\* for a catalog refresh, the candidate files the directory listed; for `o`,
\* the number of documents written
In(kind, key, io) ==
    [kind |-> kind, key |-> key, io |-> io, parsed |-> <<>>, prev |-> "",
     listing |-> {}, written |-> 0, read |-> <<>>]
NoInput == In("none", "", "")
NoCall == [fn |-> "none"]

\* ---------------------------------------------------------------- text
Blank == {" ", "\t"}

RECURSIVE TrimStart(_)
TrimStart(s) ==
    IF s # <<>> /\ Head(s) \in Blank THEN TrimStart(Tail(s)) ELSE s

RECURSIVE TrimEnd(_)
TrimEnd(s) ==
    IF s # <<>> /\ s[Len(s)] \in Blank
    THEN TrimEnd(SubSeq(s, 1, Len(s) - 1)) ELSE s

Trim(s) == TrimEnd(TrimStart(s))

\* str::split('|'): the fields between the separators, empty ones included
RECURSIVE SplitPipe(_, _)
SplitPipe(s, cur) ==
    IF s = <<>> THEN <<cur>>
    ELSE IF Head(s) = "|" THEN <<cur>> \o SplitPipe(Tail(s), <<>>)
    ELSE SplitPipe(Tail(s), Append(cur, Head(s)))

RECURSIVE FilterNonEmpty(_)
FilterNonEmpty(cells) ==
    IF cells = <<>> THEN <<>>
    ELSE IF Head(cells) = <<>> THEN FilterNonEmpty(Tail(cells))
    ELSE <<Head(cells)>> \o FilterNonEmpty(Tail(cells))

MapTrim(cells) == [i \in 1..Len(cells) |-> Trim(cells[i])]

RowCells(t) == FilterNonEmpty(MapTrim(SplitPipe(t, <<>>)))

IsCandidate(t) == t # <<>> /\ Head(t) = "|" /\ t[Len(t)] = "|"

\* parse_table without `.map(|s| s.trim().to_string())`
RECURSIVE parse_table_NoTrim(_, _)
parse_table_NoTrim(content, min_cols) ==
    IF content = <<>> THEN <<>>
    ELSE LET t == Trim(Head(content))
             cells == FilterNonEmpty(SplitPipe(t, <<>>))
             rest == parse_table_NoTrim(Tail(content), min_cols)
         IN IF IsCandidate(t) /\ Len(cells) >= min_cols
            THEN <<cells>> \o rest
            ELSE rest

RECURSIVE parse_table(_, _)
parse_table(content, min_cols) ==
    IF content = <<>> THEN <<>>
    ELSE LET t == Trim(Head(content))
             rest == parse_table(Tail(content), min_cols)
         IN IF IsCandidate(t) /\ Len(RowCells(t)) >= min_cols
            THEN <<RowCells(t)>> \o rest
            ELSE rest

\* the markdown sources the loaders may return
TableLine(i) == <<"|", " ", "t", " ", "|", " ", "x", " ", "|">>
LongText == << <<"#", " ", "T">>, <<>> >> \o [i \in 1..MaxRows |-> TableLine(i)]
LoaderResults == { [ok |-> FALSE, text |-> <<>>], [ok |-> TRUE, text |-> LongText] }

\* ------------------------------------------------------------ table views
\* load_table without its final `*scroll = 0`
load_table_KeepScroll(rows, scroll, res) ==
    [rows |-> IF res.ok THEN parse_table(res.text, 1) ELSE <<>>, scroll |-> scroll]

\* load_table whose Ok arm leaves the buffer as it was
load_table_NoReplace(rows, scroll, res) ==
    [rows |-> IF res.ok THEN rows ELSE <<>>, scroll |-> 0]

\* the pair (rows, scroll) after load_table; res is what loader(cfg) returned
load_table(rows, scroll, res) ==
    [rows |-> IF res.ok THEN parse_table(res.text, 1) ELSE <<>>, scroll |-> 0]

\* outcomes of open_in_neovim: the editor ran and exited with success, ran
\* and exited with failure, or could not be started
EditorResults == {"ok", "exit_fail", "spawn_fail"}

\* open_in_neovim returns Ok only for "ok"; the `?` after status() returns
\* before the terminal is taken back
open_in_neovim(ed) ==
    [ok |-> ed = "ok", raw |-> ed # "spawn_fail", alt |-> ed # "spawn_fail"]

\* edit_table whose failure branch leaves the buffer as it was
edit_table_KeepRows(rows, scroll, ed, res) ==
    IF open_in_neovim(ed).ok THEN load_table(rows, scroll, res)
    ELSE [rows |-> rows, scroll |-> scroll]

edit_table(rows, scroll, ed, res) ==
    IF open_in_neovim(ed).ok THEN load_table(rows, scroll, res)
    ELSE [rows |-> <<>>, scroll |-> 0]

scroll_up(scroll) == IF scroll > 0 THEN scroll - 1 ELSE scroll

\* scroll_down with <= in place of <
scroll_down_Le(scroll, len) ==
    IF scroll + SCROLL_WINDOW <= len THEN scroll + 1 ELSE scroll

\* scroll_down that stops at the last row
scroll_down_LastRow(scroll, len) ==
    IF scroll + 1 < len THEN scroll + 1 ELSE scroll

scroll_down(scroll, len) ==
    IF scroll + SCROLL_WINDOW < len THEN scroll + 1 ELSE scroll

\* ------------------------------------------------------------------ bills
BillEntry(partner, product, amount) ==
    [partner |-> partner, product |-> product, amount |-> amount]

EmptyAggregate == [incomes |-> <<>>, expenses |-> <<>>]

\* extend that puts the new entries in front
extend_Prepend(self, other) ==
    [incomes |-> other.incomes \o self.incomes,
     expenses |-> other.expenses \o self.expenses]

extend(self, other) ==
    [incomes |-> self.incomes \o other.incomes,
     expenses |-> self.expenses \o other.expenses]

is_empty(agg) == agg.incomes = <<>> /\ agg.expenses = <<>>

RECURSIVE SumAmounts(_)
SumAmounts(entries) ==
    IF entries = <<>> THEN 0 ELSE Head(entries).amount + SumAmounts(Tail(entries))

total_income(agg) == SumAmounts(agg.incomes)
total_expense(agg) == SumAmounts(agg.expenses)
net(agg) == total_income(agg) - total_expense(agg)

Abs(x) == IF x >= 0 THEN x ELSE 0 - x

\* the label chosen by `net > 0.0`
NetLabel_Strict(agg) == IF net(agg) > 0 THEN "net income" ELSE "net expense"

\* the label of the net line, in to_markdown and in the status of `a`
NetLabel(agg) == IF net(agg) >= 0 THEN "net income" ELSE "net expense"

\* ----------------------------------------------------- the bill parsers
None == [some |-> FALSE, value |-> 0]
Some(v) == [some |-> TRUE, value |-> v]

DigitChars == <<"0", "1", "2", "3", "4", "5", "6", "7", "8", "9">>
IsDigit(ch) == \E d \in 1..10 : DigitChars[d] = ch
DigitValue(ch) == (CHOOSE d \in 1..10 : DigitChars[d] = ch) - 1

RECURSIVE Pow10(_)
Pow10(n) == IF n = 0 THEN 1 ELSE 10 * Pow10(n - 1)

\* the number a string of digits denotes (0 for the empty string)
RECURSIVE DigitsValue(_)
DigitsValue(ds) ==
    IF ds = <<>> THEN 0
    ELSE 10 * DigitsValue(SubSeq(ds, 1, Len(ds) - 1)) + DigitValue(ds[Len(ds)])

\* every parsed amount is a whole number of units of 10^-AmountScale
AmountScale == MaxAmountLen

\* str::parse::<f64> on a string of digits, `.` and `-`: an optional leading
\* `-`, then digits with at most one `.` and at least one digit
ParseF64(buf) ==
    LET neg == buf # <<>> /\ Head(buf) = "-"
        body == IF neg THEN Tail(buf) ELSE buf
        dots == {i \in 1..Len(body) : body[i] = "."}
        dot == IF dots = {} THEN Len(body) + 1 ELSE CHOOSE i \in dots : TRUE
        int == SubSeq(body, 1, dot - 1)
        frac == SubSeq(body, dot + 1, Len(body))
        mag == DigitsValue(int) * Pow10(AmountScale)
                 + DigitsValue(frac) * Pow10(AmountScale - Len(frac))
    IN IF \/ \E i \in 1..Len(body) : body[i] = "-"
          \/ Cardinality(dots) > 1
          \/ Len(int) + Len(frac) = 0
       THEN None
       ELSE Some(IF neg THEN 0 - mag ELSE mag)

\* the characters parse_amount keeps
Scrub(raw) == SelectSeq(raw, LAMBDA ch : IsDigit(ch) \/ ch = "." \/ ch = "-")

parse_amount(raw) ==
    IF Scrub(raw) = <<>> THEN None ELSE ParseF64(Scrub(raw))

from_entries(expenses, incomes) == [incomes |-> incomes, expenses |-> expenses]

\* row.get(i) / record.get(i) with the default of the empty string
Get(row, i) == IF i + 1 <= Len(row) THEN row[i + 1] ELSE <<>>
Contains(str, ch) == \E i \in 1..Len(str) : str[i] = ch

\* the row loop of parse_wechat_bill whose second test is `if`, not `else if`
RECURSIVE wechat_rows_BothTests(_, _, _)
wechat_rows_BothTests(rows, expenses, incomes) ==
    IF rows = <<>> THEN from_entries(expenses, incomes)
    ELSE LET row == Head(rows)
             category == Get(row, 4)
             amount_str == Get(row, 5)
             amount == parse_amount(amount_str)
             entry == BillEntry(Get(row, 2), Get(row, 3), amount.value)
         IN IF category = <<>> \/ amount_str = <<>> \/ ~amount.some
            THEN wechat_rows_BothTests(Tail(rows), expenses, incomes)
            ELSE wechat_rows_BothTests(Tail(rows),
                   IF Contains(category, "Z") THEN Append(expenses, entry) ELSE expenses,
                   IF Contains(category, "S") THEN Append(incomes, entry) ELSE incomes)

\* the loop of parse_wechat_bill over the rows below the header; a row is
\* the sequence of its cells after cell_to_string (a row of Empty cells is a
\* row of empty strings)
RECURSIVE wechat_rows(_, _, _)
wechat_rows(rows, expenses, incomes) ==
    IF rows = <<>> THEN from_entries(expenses, incomes)
    ELSE LET row == Head(rows)
             category == Get(row, 4)
             amount_str == Get(row, 5)
             amount == parse_amount(amount_str)
             entry == BillEntry(Get(row, 2), Get(row, 3), amount.value)
         IN IF \A i \in 1..Len(row) : row[i] = <<>>
            THEN wechat_rows(Tail(rows), expenses, incomes)
            ELSE IF category = <<>> \/ amount_str = <<>>
            THEN wechat_rows(Tail(rows), expenses, incomes)
            ELSE IF ~amount.some
            THEN wechat_rows(Tail(rows), expenses, incomes)
            ELSE IF Contains(category, "Z")
            THEN wechat_rows(Tail(rows), Append(expenses, entry), incomes)
            ELSE IF Contains(category, "S")
            THEN wechat_rows(Tail(rows), expenses, Append(incomes, entry))
            ELSE wechat_rows(Tail(rows), expenses, incomes)

\* the loop of parse_alipay_bill over the records below the header
RECURSIVE alipay_rows(_, _, _)
alipay_rows(rows, expenses, incomes) ==
    IF rows = <<>> THEN from_entries(expenses, incomes)
    ELSE LET record == Head(rows)
             flow == Trim(Get(record, 5))
             amount_text == Trim(Get(record, 6))
             amount == parse_amount(amount_text)
             entry == BillEntry(Trim(Get(record, 2)), Trim(Get(record, 4)), amount.value)
         IN IF Len(record) < 7
            THEN alipay_rows(Tail(rows), expenses, incomes)
            ELSE IF flow = <<>> \/ amount_text = <<>>
            THEN alipay_rows(Tail(rows), expenses, incomes)
            ELSE IF ~amount.some
            THEN alipay_rows(Tail(rows), expenses, incomes)
            ELSE IF Contains(flow, "Z")
            THEN alipay_rows(Tail(rows), Append(expenses, entry), incomes)
            ELSE IF Contains(flow, "S")
            THEN alipay_rows(Tail(rows), expenses, Append(incomes, entry))
            ELSE alipay_rows(Tail(rows), expenses, incomes)

\* Result<BillAggregate, String>; the error texts are given in English
ParseOk(report) == [ok |-> TRUE, err |-> "", report |-> report]
ParseErr(e) == [ok |-> FALSE, err |-> e, report |-> EmptyAggregate]

\* A bill file on disk: whether it can be opened and read, what
\* worksheet_range_at(0) gives for it (a workbook only), and its rows, each
\* with its cells as text and with whether the CSV reader hands it over as
\* Ok (a record only).  "T" stands for the header text of the first column.
BillFile(readable, sheet, rows) == [readable |-> readable, sheet |-> sheet, rows |-> rows]
FileRow(ok, cells) == [ok |-> ok, cells |-> cells]
CellsOf(rows) == [i \in 1..Len(rows) |-> rows[i].cells]

\* the index of the first row whose first cell is the header text, 0 if none
HeaderIdx(rows) ==
    LET hs == {i \in 1..Len(rows) : Trim(Get(rows[i].cells, 0)) = <<"T">>} IN
      IF hs = {} THEN 0 ELSE CHOOSE i \in hs : \A j \in hs : i <= j

\* parse_wechat_bill in which a skipped row fails the parse
parse_wechat_bill_StrictRows(file) ==
    LET h == HeaderIdx(file.rows)
        below == SubSeq(file.rows, h + 1, Len(file.rows))
        report == wechat_rows(CellsOf(below), <<>>, <<>>)
    IN IF ~file.readable THEN ParseErr("cannot open file")
       ELSE IF file.sheet = "none" THEN ParseErr("no worksheet")
       ELSE IF file.sheet = "err" THEN ParseErr("worksheet read failed")
       ELSE IF h = 0 THEN ParseErr("bill list not found")
       ELSE IF Len(report.incomes) + Len(report.expenses) < Len(below)
       THEN ParseErr("bad row")
       ELSE ParseOk(report)

parse_wechat_bill(file) ==
    LET h == HeaderIdx(file.rows)
        below == SubSeq(file.rows, h + 1, Len(file.rows))
    IN IF ~file.readable THEN ParseErr("cannot open file")
       ELSE IF file.sheet = "none" THEN ParseErr("no worksheet")
       ELSE IF file.sheet = "err" THEN ParseErr("worksheet read failed")
       ELSE IF h = 0 THEN ParseErr("bill list not found")
       ELSE ParseOk(wechat_rows(CellsOf(below), <<>>, <<>>))

\* parse_alipay_bill: the data start at the header line, which the reader
\* takes as the header record; a record the reader returns as Err ends the
\* parse with an error, whatever was collected before it
parse_alipay_bill(file) ==
    LET h == HeaderIdx(file.rows)
        below == SubSeq(file.rows, h + 1, Len(file.rows))
    IN IF ~file.readable THEN ParseErr("cannot read file")
       ELSE IF h = 0 THEN ParseErr("bill header not found")
       ELSE IF \E i \in 1..Len(below) : ~below[i].ok THEN ParseErr("csv parse failed")
       ELSE ParseOk(alipay_rows(CellsOf(below), <<>>, <<>>))

\* analyze_bill_file, on the lower-cased extension of the path ("" for a path
\* without one) and the file at the path
analyze_bill_file(ext, file) ==
    IF ext = "" THEN ParseErr("unknown file type")
    ELSE IF ext = "xlsx" THEN parse_wechat_bill(file)
    ELSE IF ext = "csv" THEN parse_alipay_bill(file)
    ELSE ParseErr("unsupported format")

\* the extension of path p: the odd paths are workbooks, the even ones CSV
Extension(p) == IF p % 2 = 1 THEN "xlsx" ELSE "csv"
\* the partner cell of the rows of the file at path p
PartnerOf(p) == <<DigitChars[p + 1]>>

\* a sheet row (time, type, partner, product, direction, amount) or a CSV
\* record (time, category, partner, account, product, direction, amount)
BillRow(ext, partner, flow, amount) ==
    FileRow(TRUE,
            IF ext = "xlsx"
            THEN << <<"t">>, <<"c">>, partner, <<"g">>, flow, amount >>
            ELSE << <<"t">>, <<"c">>, partner, <<"a">>, <<"g">>, flow, amount >>)
HeaderRow(ext) ==
    FileRow(TRUE, << <<"T">> >> \o Tail(BillRow(ext, <<"P">>, <<"D">>, <<"A">>).cells))
PreambleRow == FileRow(TRUE, << <<"n">>, <<"m">> >>)
ShortRow == FileRow(TRUE, << <<"t">>, <<"c">>, <<"p">> >>)
BlankRow == FileRow(TRUE, << <<>>, <<>>, <<>> >>)

\* what may be at path p when it is analyzed: a file that cannot be read, a
\* file without the header, a file whose rows below the header are all
\* skipped, and a file with one income and one expense
UnreadableFile == BillFile(FALSE, "ok", <<>>)
NoHeaderFile == BillFile(TRUE, "ok", <<PreambleRow>>)
SkippedFile(p) ==
    LET e == Extension(p) IN
      BillFile(TRUE, "ok",
               << PreambleRow, HeaderRow(e), ShortRow, BlankRow,
                  BillRow(e, PartnerOf(p), <<>>, <<"5">>),
                  BillRow(e, PartnerOf(p), <<"S">>, <<>>),
                  BillRow(e, PartnerOf(p), <<"S">>, <<"y">>),
                  BillRow(e, PartnerOf(p), <<"x">>, <<"5">>) >>)
EntriesFile(p) ==
    LET e == Extension(p) IN
      BillFile(TRUE, "ok",
               << PreambleRow, HeaderRow(e),
                  BillRow(e, PartnerOf(p), <<"S">>, <<"5">>),
                  BillRow(e, PartnerOf(p), <<"Z">>, <<"3">>) >>)
FileKinds == {"unreadable", "no header", "skipped", "entries"}
FileOf(p, kind) ==
    CASE kind = "unreadable" -> UnreadableFile
      [] kind = "no header" -> NoHeaderFile
      [] kind = "skipped" -> SkippedFile(p)
      [] kind = "entries" -> EntriesFile(p)

\* what analyze_bill_file returns for each of these files at each path
ParsedFiles ==
    [p \in Paths |-> [k \in FileKinds |-> analyze_bill_file(Extension(p), FileOf(p, k))]]

\* the report of the file with entries at path p
Report(p) == ParsedFiles[p]["entries"].report

\* the disks an analysis of catalog fl may find, as the kind of the file at
\* each listed path, and what analyze_bill_file returns for each listed path
\* on such a disk
Disks(fl) == [{fl[i] : i \in 1..Len(fl)} -> FileKinds]
ParseAll(disk) == [p \in DOMAIN disk |-> ParsedFiles[p][disk[p]]]

\* list.sort() over the directory listing
Min(S) == CHOOSE x \in S : \A y \in S : x <= y
RECURSIVE SortPaths(_)
SortPaths(S) ==
    IF S = {} THEN <<>> ELSE <<Min(S)>> \o SortPaths(S \ {Min(S)})

\* refresh_files: Err leaves the catalog alone, Ok replaces it by the
\* sorted listing
DirResults == { [ok |-> FALSE, listing |-> {}] } \cup
              { [ok |-> TRUE, listing |-> S] : S \in SUBSET Paths }
\* refresh_files that drops the catalog when the directory cannot be read
refresh_files_ClearOnErr(fl, dir) == IF dir.ok THEN SortPaths(dir.listing) ELSE <<>>

refresh_files(fl, dir) == IF dir.ok THEN SortPaths(dir.listing) ELSE fl

RECURSIVE CountPending(_, _)
CountPending(fl, proc) ==
    IF fl = <<>> THEN 0
    ELSE (IF Head(fl) \in proc THEN 0 ELSE 1) + CountPending(Tail(fl), proc)
\* pending_count computed from the two sizes
pending_count_BySize(fl, proc) == Len(fl) - Cardinality(proc)

pending_count(fl, proc) == CountPending(fl, proc)

AnalyzeOk(n) == [ok |-> TRUE, n |-> n, err |-> ""]
AnalyzeErr(e) == [ok |-> FALSE, n |-> 0, err |-> e]

\* the loop without `if self.processed.contains(path) { continue; }`
RECURSIVE AnalyzeLoop_NoSkip(_, _, _, _, _, _, _, _)
AnalyzeLoop_NoSkip(fl, i, proc, agg, success, fs, parsed, added) ==
    IF i > Len(fl)
    THEN [processed |-> proc, aggregate |-> agg, parsed |-> parsed, added |-> added,
          res |-> IF success = 0 THEN AnalyzeErr("nothing pending")
                  ELSE AnalyzeOk(success)]
    ELSE IF fs[fl[i]].ok
    THEN AnalyzeLoop_NoSkip(fl, i + 1, proc \cup {fl[i]}, extend(agg, fs[fl[i]].report),
                            success + 1, fs, Append(parsed, fl[i]), Append(added, fl[i]))
    ELSE [processed |-> proc, aggregate |-> agg, parsed |-> Append(parsed, fl[i]),
          added |-> added, res |-> AnalyzeErr("analysis failed")]

\* the loop that goes on to the next file after a parse error
RECURSIVE AnalyzeLoop_SkipBroken(_, _, _, _, _, _, _, _)
AnalyzeLoop_SkipBroken(fl, i, proc, agg, success, fs, parsed, added) ==
    IF i > Len(fl)
    THEN [processed |-> proc, aggregate |-> agg, parsed |-> parsed, added |-> added,
          res |-> IF \E j \in 1..Len(parsed) : ~fs[parsed[j]].ok
                  THEN AnalyzeErr("analysis failed")
                  ELSE IF success = 0 THEN AnalyzeErr("nothing pending")
                  ELSE AnalyzeOk(success)]
    ELSE IF fl[i] \in proc
    THEN AnalyzeLoop_SkipBroken(fl, i + 1, proc, agg, success, fs, parsed, added)
    ELSE IF fs[fl[i]].ok
    THEN AnalyzeLoop_SkipBroken(fl, i + 1, proc \cup {fl[i]},
                                extend(agg, fs[fl[i]].report), success + 1, fs,
                                Append(parsed, fl[i]), Append(added, fl[i]))
    ELSE AnalyzeLoop_SkipBroken(fl, i + 1, proc, agg, success, fs,
                                Append(parsed, fl[i]), added)

\* the loop without `self.processed.insert(path.clone())`
RECURSIVE AnalyzeLoop_NoInsert(_, _, _, _, _, _, _, _)
AnalyzeLoop_NoInsert(fl, i, proc, agg, success, fs, parsed, added) ==
    IF i > Len(fl)
    THEN [processed |-> proc, aggregate |-> agg, parsed |-> parsed, added |-> added,
          res |-> IF success = 0 THEN AnalyzeErr("nothing pending")
                  ELSE AnalyzeOk(success)]
    ELSE IF fl[i] \in proc
    THEN AnalyzeLoop_NoInsert(fl, i + 1, proc, agg, success, fs, parsed, added)
    ELSE IF fs[fl[i]].ok
    THEN AnalyzeLoop_NoInsert(fl, i + 1, proc, extend(agg, fs[fl[i]].report),
                              success + 1, fs, Append(parsed, fl[i]), Append(added, fl[i]))
    ELSE [processed |-> proc, aggregate |-> agg, parsed |-> Append(parsed, fl[i]),
          added |-> added, res |-> AnalyzeErr("analysis failed")]

\* the loop that reports a parse error as "nothing pending" when no file
\* was ingested before it
RECURSIVE AnalyzeLoop_ErrAsNothing(_, _, _, _, _, _, _, _)
AnalyzeLoop_ErrAsNothing(fl, i, proc, agg, success, fs, parsed, added) ==
    IF i > Len(fl)
    THEN [processed |-> proc, aggregate |-> agg, parsed |-> parsed, added |-> added,
          res |-> IF success = 0 THEN AnalyzeErr("nothing pending")
                  ELSE AnalyzeOk(success)]
    ELSE IF fl[i] \in proc
    THEN AnalyzeLoop_ErrAsNothing(fl, i + 1, proc, agg, success, fs, parsed, added)
    ELSE IF fs[fl[i]].ok
    THEN AnalyzeLoop_ErrAsNothing(fl, i + 1, proc \cup {fl[i]},
                                  extend(agg, fs[fl[i]].report), success + 1, fs,
                                  Append(parsed, fl[i]), Append(added, fl[i]))
    ELSE [processed |-> proc, aggregate |-> agg, parsed |-> Append(parsed, fl[i]),
          added |-> added,
          res |-> IF success = 0 THEN AnalyzeErr("nothing pending")
                  ELSE AnalyzeErr("analysis failed")]

\* the loop that puts the broken file into the processed set
RECURSIVE AnalyzeLoop_InsertBroken(_, _, _, _, _, _, _, _)
AnalyzeLoop_InsertBroken(fl, i, proc, agg, success, fs, parsed, added) ==
    IF i > Len(fl)
    THEN [processed |-> proc, aggregate |-> agg, parsed |-> parsed, added |-> added,
          res |-> IF success = 0 THEN AnalyzeErr("nothing pending")
                  ELSE AnalyzeOk(success)]
    ELSE IF fl[i] \in proc
    THEN AnalyzeLoop_InsertBroken(fl, i + 1, proc, agg, success, fs, parsed, added)
    ELSE IF fs[fl[i]].ok
    THEN AnalyzeLoop_InsertBroken(fl, i + 1, proc \cup {fl[i]},
                                  extend(agg, fs[fl[i]].report), success + 1, fs,
                                  Append(parsed, fl[i]), Append(added, fl[i]))
    ELSE [processed |-> proc \cup {fl[i]}, aggregate |-> agg,
          parsed |-> Append(parsed, fl[i]), added |-> added,
          res |-> AnalyzeErr("analysis failed")]

\* the for loop of analyze_pending from catalog index i on; `parsed` lists
\* the paths handed to analyze_bill_file, `added` those whose report was
\* appended
RECURSIVE AnalyzeLoop(_, _, _, _, _, _, _, _)
AnalyzeLoop(fl, i, proc, agg, success, fs, parsed, added) ==
    IF i > Len(fl)
    THEN [processed |-> proc, aggregate |-> agg, parsed |-> parsed, added |-> added,
          res |-> IF success = 0 THEN AnalyzeErr("nothing pending")
                  ELSE AnalyzeOk(success)]
    ELSE IF fl[i] \in proc
    THEN AnalyzeLoop(fl, i + 1, proc, agg, success, fs, parsed, added)
    ELSE IF fs[fl[i]].ok
    THEN AnalyzeLoop(fl, i + 1, proc \cup {fl[i]}, extend(agg, fs[fl[i]].report),
                     success + 1, fs, Append(parsed, fl[i]), Append(added, fl[i]))
    ELSE [processed |-> proc, aggregate |-> agg, parsed |-> Append(parsed, fl[i]),
          added |-> added, res |-> AnalyzeErr("analysis failed")]

\* analyze_pending whose count starts at 1
analyze_pending_CountFromOne(fl, proc, agg, fs) ==
    AnalyzeLoop(fl, 1, proc, agg, 1, fs, <<>>, <<>>)

analyze_pending(fl, proc, agg, fs) ==
    AnalyzeLoop(fl, 1, proc, agg, 0, fs, <<>>, <<>>)

\* prompt_export_directory / export_reports outcomes
PromptResults == {"ok", "fail"}
WriteResults == {"ok", "fail"}
\* export_reports without `if self.aggregate.is_empty() { return Ok(0); }`
export_reports_NoEmptyCheck(agg, wr) ==
    IF wr = "ok" THEN [ok |-> TRUE, n |-> 1, written |-> 1]
    ELSE [ok |-> FALSE, n |-> 0, written |-> 0]

\* the result of export_reports and the number of documents it wrote; wr is
\* what create_dir_all and fs::write returned
export_reports(agg, wr) ==
    IF is_empty(agg) THEN [ok |-> TRUE, n |-> 0, written |-> 0]
    ELSE IF wr = "ok" THEN [ok |-> TRUE, n |-> 1, written |-> 1]
    ELSE [ok |-> FALSE, n |-> 0, written |-> 0]

\* ---------------------------------------------------------------- weather
WeatherBoards == {"board"}

\* ------------------------------------------------------------------- Init
InitApp ==
    /\ state = "MainMenu"
    /\ selected = 0
    /\ last_msg \in {NoMsg, Msg("warning", 0, NoNet)}
    /\ force_redraw = FALSE
    /\ todo = <<>>
    /\ todo_scroll = 0
    /\ cyber = <<>>
    /\ cyber_scroll = 0
    /\ files = <<>>
    /\ processed = {}
    /\ aggregate = EmptyAggregate
    /\ weather_cards = "empty"
    /\ chan = <<>>
    /\ workers = 0
    /\ raw_mode = TRUE
    /\ alt_screen = TRUE
    /\ pc = "render"
    /\ input = NoInput
    /\ ingests = [p \in Paths |-> 0]

Init ==
    /\ InitApp
    /\ call = NoCall

\* ------------------------------------------------------- loop body, top
\* the top of the loop body with a clear on every pass
Render_AlwaysClear ==
    /\ pc = "render"
    /\ force_redraw' = FALSE
    /\ pc' = "weather"
    /\ input' = In("none", "", "cleared")
    /\ UNCHANGED <<state, selected, last_msg, tableVars, billVars, weatherVars, termVars, call>>

\* the top of the loop body: terminal.clear() if force_redraw is set, which
\* resets it, then terminal.draw(..); input.io tells whether the pass cleared
Render ==
    /\ pc = "render"
    /\ force_redraw' = FALSE
    /\ pc' = "weather"
    /\ input' = In("none", "", IF force_redraw THEN "cleared" ELSE "")
    /\ UNCHANGED <<state, selected, last_msg, tableVars, billVars, weatherVars, termVars, call>>

WeatherRecv_NoFlag ==
    /\ pc = "weather"
    /\ chan # <<>>
    /\ weather_cards' = Head(chan)
    /\ chan' = Tail(chan)
    /\ pc' = "input"
    /\ UNCHANGED <<state, selected, last_msg, force_redraw, tableVars, billVars,
                   workers, termVars, input, call>>

\* rx.try_recv() returned a board
WeatherRecv ==
    /\ pc = "weather"
    /\ chan # <<>>
    /\ weather_cards' = Head(chan)
    /\ chan' = Tail(chan)
    /\ force_redraw' = TRUE
    /\ pc' = "input"
    /\ UNCHANGED <<state, selected, last_msg, tableVars, billVars, workers, termVars,
                   input, call>>

\* rx.try_recv() returned Err(Empty)
WeatherNone ==
    /\ pc = "weather"
    /\ chan = <<>>
    /\ pc' = "input"
    /\ UNCHANGED <<state, selected, last_msg, force_redraw, tableVars, billVars,
                   weatherVars, termVars, input, call>>

\* the detached thread of fetch_weather_board sends its cards and ends
WorkerSend ==
    /\ workers > 0
    /\ \E b \in WeatherBoards : chan' = Append(chan, b)
    /\ workers' = workers - 1
    /\ UNCHANGED <<state, selected, last_msg, force_redraw, tableVars, billVars,
                   weather_cards, termVars, pc, input, call>>

\* ------------------------------------------- failures of the terminal calls
\* terminal.clear()? returns the error: force_redraw stays set
ClearFails ==
    /\ pc = "render"
    /\ force_redraw
    /\ pc' = "failed"
    /\ input' = In("error", "", "clear")
    /\ UNCHANGED <<state, selected, last_msg, force_redraw, tableVars, billVars,
                   weatherVars, termVars, call>>

\* terminal.draw(..)? returns the error, after the clear (if any) went well
DrawFails ==
    /\ pc = "render"
    /\ force_redraw' = FALSE
    /\ pc' = "failed"
    /\ input' = In("error", "", "draw")
    /\ UNCHANGED <<state, selected, last_msg, tableVars, billVars, weatherVars,
                   termVars, call>>

\* event::poll(..)? or event::read()? returns the error
PollFails ==
    /\ pc = "input"
    /\ pc' = "failed"
    /\ input' = In("error", "", "poll")
    /\ UNCHANGED <<state, selected, last_msg, force_redraw, tableVars, billVars,
                   weatherVars, termVars, call>>

\* ------------------------------------------------ input without a handler
Handled(in) ==
    /\ pc = "input"
    /\ pc' = "render"
    /\ input' = in
    /\ call' = call

\* event::poll returned false
PollTimeout ==
    /\ Handled(In("idle", "", ""))
    /\ UNCHANGED <<state, selected, last_msg, force_redraw, tableVars, billVars,
                   weatherVars, termVars>>

\* a released or repeated key handled like a pressed Down in the menu
KeyNotPress_AsPress ==
    /\ \E kind \in {"release", "repeat"} : Handled(In("idle", "", ""))
    /\ selected' = (selected + 1) % MenuLen
    /\ UNCHANGED <<state, last_msg, force_redraw, tableVars, billVars,
                   weatherVars, termVars>>

\* a key event whose kind is Release or Repeat
KeyNotPress ==
    /\ \E kind \in {"release", "repeat"} : Handled(In("idle", "", ""))
    /\ UNCHANGED <<state, selected, last_msg, force_redraw, tableVars, billVars,
                   weatherVars, termVars>>

\* event::read returned something that is not Event::Key
NonKeyEvent ==
    /\ Handled(In("idle", "", ""))
    /\ UNCHANGED <<state, selected, last_msg, force_redraw, tableVars, billVars,
                   weatherVars, termVars>>

\* a pressed key the active view has no arm for
OtherKey ==
    /\ state \in {"MainMenu", "TodoView", "CyberView", "BillView"}
    /\ Handled(In("press", "other", ""))
    /\ UNCHANGED <<state, selected, last_msg, force_redraw, tableVars, billVars,
                   weatherVars, termVars>>

\* ------------------------------------------------------- MainMenu keys
\* selected after the Up | k arm
menu_up(sel) == IF sel = 0 THEN MenuLen - 1 ELSE sel - 1

\* the Down arm without the wrap-around
menu_down_Clamp(sel) == IF sel + 1 < MenuLen THEN sel + 1 ELSE sel

\* selected after the Down | j arm
menu_down(sel) == (sel + 1) % MenuLen

\* q and Esc share one arm, as do Up and k, and Down and j
MainMenuQuit ==
    /\ state = "MainMenu"
    /\ pc = "input"
    /\ input' = In("press", "q", "")
    /\ pc' = "done"
    /\ UNCHANGED <<state, selected, last_msg, force_redraw, tableVars, billVars,
                   weatherVars, termVars, call>>

MainMenuUp ==
    /\ state = "MainMenu"
    /\ Handled(In("press", "k", ""))
    /\ selected' = menu_up(selected)
    /\ last_msg' = NoMsg
    /\ UNCHANGED <<state, force_redraw, tableVars, billVars, weatherVars, termVars>>

MainMenuDown ==
    /\ state = "MainMenu"
    /\ Handled(In("press", "j", ""))
    /\ selected' = menu_down(selected)
    /\ last_msg' = NoMsg
    /\ UNCHANGED <<state, force_redraw, tableVars, billVars, weatherVars, termVars>>

\* MenuItem::all() = [Todo, Bill, Cyber]
MainMenuEnterTodo ==
    /\ state = "MainMenu"
    /\ selected = 0
    /\ \E res \in LoaderResults :
         /\ Handled(In("press", "Enter", IF res.ok THEN "ok" ELSE "load_fail"))
         /\ todo' = load_table(todo, todo_scroll, res).rows
         /\ todo_scroll' = load_table(todo, todo_scroll, res).scroll
    /\ state' = "TodoView"
    /\ last_msg' = NoMsg
    /\ UNCHANGED <<selected, force_redraw, cyber, cyber_scroll, billVars, weatherVars,
                   termVars>>

MainMenuEnterCyber ==
    /\ state = "MainMenu"
    /\ selected = 2
    /\ \E res \in LoaderResults :
         /\ Handled(In("press", "Enter", IF res.ok THEN "ok" ELSE "load_fail"))
         /\ cyber' = load_table(cyber, cyber_scroll, res).rows
         /\ cyber_scroll' = load_table(cyber, cyber_scroll, res).scroll
    /\ state' = "CyberView"
    /\ last_msg' = NoMsg
    /\ UNCHANGED <<selected, force_redraw, todo, todo_scroll, billVars, weatherVars,
                   termVars>>
\* the Enter arm of the Bill item that starts a new ledger
MainMenuEnterBill_NewLedger ==
    /\ state = "MainMenu"
    /\ selected = 1
    /\ \E dir \in DirResults :
         /\ Handled([In("press", "Enter", IF dir.ok THEN "ok" ELSE "refresh_fail")
                       EXCEPT !.listing = dir.listing])
         /\ files' = refresh_files(files, dir)
    /\ state' = "BillView"
    /\ force_redraw' = TRUE
    /\ last_msg' = NoMsg
    /\ processed' = {}
    /\ aggregate' = EmptyAggregate
    /\ UNCHANGED <<selected, tableVars, ingests, weatherVars, termVars>>

MainMenuEnterBill ==
    /\ state = "MainMenu"
    /\ selected = 1
    /\ \E dir \in DirResults :
         /\ Handled([In("press", "Enter", IF dir.ok THEN "ok" ELSE "refresh_fail")
                       EXCEPT !.listing = dir.listing])
         /\ files' = refresh_files(files, dir)
    /\ state' = "BillView"
    /\ force_redraw' = TRUE
    /\ last_msg' = NoMsg
    /\ UNCHANGED <<selected, tableVars, processed, aggregate, ingests, weatherVars,
                   termVars>>

\* fetch_weather_board(cfg.clone(), weather_tx.clone()) spawns a thread
MainMenuWeather ==
    /\ state = "MainMenu"
    /\ workers + Len(chan) < MaxInFlight
    /\ Handled(In("press", "w", ""))
    /\ workers' = workers + 1
    /\ UNCHANGED <<state, selected, last_msg, force_redraw, tableVars, billVars,
                   weather_cards, chan, termVars>>

\* ----------------------------------------------------------- TodoView keys
\* the `q` arm without `todo_scroll = 0`
TodoQuit_KeepScroll ==
    /\ state = "TodoView"
    /\ Handled(In("press", "q", ""))
    /\ state' = "MainMenu"
    /\ UNCHANGED <<selected, last_msg, force_redraw, tableVars, billVars,
                   weatherVars, termVars>>

TodoQuit ==
    /\ state = "TodoView"
    /\ Handled(In("press", "q", ""))
    /\ state' = "MainMenu"
    /\ todo_scroll' = 0
    /\ UNCHANGED <<selected, last_msg, force_redraw, todo, cyber, cyber_scroll,
                   billVars, weatherVars, termVars>>

TodoEdit ==
    /\ state = "TodoView"
    /\ \E ed \in EditorResults, res \in LoaderResults :
         /\ Handled(In("press", "e",
                       IF ed # "ok" THEN ed ELSE IF res.ok THEN "ok" ELSE "load_fail"))
         /\ todo' = edit_table(todo, todo_scroll, ed, res).rows
         /\ todo_scroll' = edit_table(todo, todo_scroll, ed, res).scroll
         /\ raw_mode' = open_in_neovim(ed).raw
         /\ alt_screen' = open_in_neovim(ed).alt
    /\ force_redraw' = TRUE
    /\ UNCHANGED <<state, selected, last_msg, cyber, cyber_scroll, billVars, weatherVars>>

TodoRefresh ==
    /\ state = "TodoView"
    /\ \E res \in LoaderResults :
         /\ Handled(In("press", "r", IF res.ok THEN "ok" ELSE "load_fail"))
         /\ todo' = load_table(todo, todo_scroll, res).rows
         /\ todo_scroll' = load_table(todo, todo_scroll, res).scroll
    /\ UNCHANGED <<state, selected, last_msg, force_redraw, cyber, cyber_scroll,
                   billVars, weatherVars, termVars>>

TodoUp ==
    /\ state = "TodoView"
    /\ Handled(In("press", "k", ""))
    /\ todo_scroll' = scroll_up(todo_scroll)
    /\ UNCHANGED <<state, selected, last_msg, force_redraw, todo, cyber, cyber_scroll,
                   billVars, weatherVars, termVars>>

TodoDown ==
    /\ state = "TodoView"
    /\ Handled(In("press", "j", ""))
    /\ todo_scroll' = scroll_down(todo_scroll, Len(todo))
    /\ UNCHANGED <<state, selected, last_msg, force_redraw, todo, cyber, cyber_scroll,
                   billVars, weatherVars, termVars>>

\* ---------------------------------------------------------- CyberView keys
CyberQuit ==
    /\ state = "CyberView"
    /\ Handled(In("press", "q", ""))
    /\ state' = "MainMenu"
    /\ cyber_scroll' = 0
    /\ UNCHANGED <<selected, last_msg, force_redraw, todo, todo_scroll, cyber,
                   billVars, weatherVars, termVars>>

CyberEdit ==
    /\ state = "CyberView"
    /\ \E ed \in EditorResults, res \in LoaderResults :
         /\ Handled(In("press", "e",
                       IF ed # "ok" THEN ed ELSE IF res.ok THEN "ok" ELSE "load_fail"))
         /\ cyber' = edit_table(cyber, cyber_scroll, ed, res).rows
         /\ cyber_scroll' = edit_table(cyber, cyber_scroll, ed, res).scroll
         /\ raw_mode' = open_in_neovim(ed).raw
         /\ alt_screen' = open_in_neovim(ed).alt
    /\ force_redraw' = TRUE
    /\ UNCHANGED <<state, selected, last_msg, todo, todo_scroll, billVars, weatherVars>>

CyberRefresh ==
    /\ state = "CyberView"
    /\ \E res \in LoaderResults :
         /\ Handled(In("press", "r", IF res.ok THEN "ok" ELSE "load_fail"))
         /\ cyber' = load_table(cyber, cyber_scroll, res).rows
         /\ cyber_scroll' = load_table(cyber, cyber_scroll, res).scroll
    /\ UNCHANGED <<state, selected, last_msg, force_redraw, todo, todo_scroll,
                   billVars, weatherVars, termVars>>

CyberUp ==
    /\ state = "CyberView"
    /\ Handled(In("press", "k", ""))
    /\ cyber_scroll' = scroll_up(cyber_scroll)
    /\ UNCHANGED <<state, selected, last_msg, force_redraw, todo, todo_scroll, cyber,
                   billVars, weatherVars, termVars>>

CyberDown ==
    /\ state = "CyberView"
    /\ Handled(In("press", "j", ""))
    /\ cyber_scroll' = scroll_down(cyber_scroll, Len(cyber))
    /\ UNCHANGED <<state, selected, last_msg, force_redraw, todo, todo_scroll, cyber,
                   billVars, weatherVars, termVars>>

\* ----------------------------------------------------------- BillView keys
BillQuit ==
    /\ state = "BillView"
    /\ Handled(In("press", "q", ""))
    /\ state' = "MainMenu"
    /\ force_redraw' = TRUE
    /\ UNCHANGED <<selected, last_msg, tableVars, billVars, weatherVars, termVars>>

BillRefresh ==
    /\ state = "BillView"
    /\ \E dir \in DirResults :
         /\ Handled([In("press", "r", IF dir.ok THEN "ok" ELSE "refresh_fail")
                       EXCEPT !.listing = dir.listing])
         /\ files' = refresh_files(files, dir)
         /\ last_msg' = IF dir.ok
                        THEN Msg("pending", pending_count(files', processed), NoNet)
                        ELSE Msg("refresh failed", 0, NoNet)
    /\ force_redraw' = TRUE
    /\ UNCHANGED <<state, selected, tableVars, processed, aggregate, ingests,
                   weatherVars, termVars>>

NetText(agg) ==
    IF is_empty(agg) THEN <<"no stats", 0>> ELSE <<NetLabel(agg), Abs(net(agg))>>

Occurrences(seq, x) == Cardinality({i \in 1..Len(seq) : seq[i] = x})

BillAnalyze ==
    /\ state = "BillView"
    /\ \E disk \in Disks(files) :
         LET r == analyze_pending(files, processed, aggregate, ParseAll(disk)) IN
           /\ Handled([In("press", "a", IF r.res.ok THEN "ok" ELSE r.res.err)
                         EXCEPT !.parsed = r.parsed, !.prev = last_msg.kind,
                                !.read = [i \in 1..Len(r.parsed) |-> disk[r.parsed[i]]]])
           /\ processed' = r.processed
           /\ aggregate' = r.aggregate
           /\ ingests' = [p \in Paths |-> ingests[p] + Occurrences(r.added, p)]
           /\ last_msg' = IF r.res.ok
                          THEN Msg("done", r.res.n, NetText(r.aggregate))
                          ELSE Msg(r.res.err, 0, NoNet)
    /\ force_redraw' = TRUE
    /\ UNCHANGED <<state, selected, tableVars, files, weatherVars, termVars>>

\* `o` on an empty aggregate: no prompt, only the hint
BillExportEmpty ==
    /\ state = "BillView"
    /\ is_empty(aggregate)
    /\ Handled(In("press", "o", "empty"))
    /\ last_msg' = Msg("analyze first", 0, NoNet)
    /\ force_redraw' = TRUE
    /\ UNCHANGED <<state, selected, tableVars, billVars, weatherVars, termVars>>

\* `o` otherwise: prompt_export_directory, then export_reports; the prompt
\* takes the terminal back on both of its results
BillExport ==
    /\ state = "BillView"
    /\ ~is_empty(aggregate)
    /\ \E pr \in PromptResults, wr \in WriteResults :
         LET x == export_reports(aggregate, wr) IN
           /\ Handled([In("press", "o",
                          IF pr # "ok" THEN "prompt_fail"
                          ELSE IF x.ok THEN "ok" ELSE "write_fail")
                         EXCEPT !.written = IF pr = "ok" THEN x.written ELSE 0])
           /\ last_msg' = IF pr # "ok" THEN Msg("prompt failed", 0, NoNet)
                          ELSE IF x.ok THEN Msg("exported", x.n, NoNet)
                          ELSE Msg("export failed", 0, NoNet)
    /\ raw_mode' = TRUE
    /\ alt_screen' = TRUE
    /\ force_redraw' = TRUE
    /\ UNCHANGED <<state, selected, tableVars, billVars, weatherVars>>

\* ------------------------------------------------------------------- Next
\* the loop body up to the input poll, and the events without effect
LoopSteps ==
    \/ Render
    \/ WeatherNone
    \/ PollTimeout
    \/ KeyNotPress
    \/ NonKeyEvent
    \/ OtherKey

\* run_app returns Err out of the loop
TerminalSteps ==
    \/ ClearFails
    \/ DrawFails
    \/ PollFails

\* the weather fetch: the `w` key, the worker thread, a received board
WeatherSteps ==
    \/ MainMenuWeather
    \/ WorkerSend
    \/ WeatherRecv

MenuSteps ==
    \/ MainMenuQuit
    \/ MainMenuUp
    \/ MainMenuDown
    \/ MainMenuEnterTodo
    \/ MainMenuEnterCyber
    \/ MainMenuEnterBill

TableSteps ==
    \/ TodoQuit
    \/ TodoEdit
    \/ TodoRefresh
    \/ TodoUp
    \/ TodoDown
    \/ CyberQuit
    \/ CyberEdit
    \/ CyberRefresh
    \/ CyberUp
    \/ CyberDown

\* BillView keys that leave the ledger alone
CatalogSteps ==
    \/ BillQuit
    \/ BillRefresh
    \/ BillExportEmpty

\* BillView keys that ingest and export
LedgerSteps ==
    \/ BillAnalyze
    \/ BillExport

\* the whole program
Next ==
    \/ LoopSteps
    \/ TerminalSteps
    \/ WeatherSteps
    \/ MenuSteps
    \/ TableSteps
    \/ CatalogSteps
    \/ LedgerSteps

Spec == Init /\ [][Next]_vars

\* the runs in which `w` is never pressed: no worker is ever spawned and the
\* channel stays empty
NextDash ==
    \/ LoopSteps
    \/ TerminalSteps
    \/ MenuSteps
    \/ TableSteps
    \/ CatalogSteps
    \/ LedgerSteps

SpecDash == Init /\ [][NextDash]_vars

\* the runs in which `a` is never pressed in BillView: the ledger stays empty
NextWeather ==
    \/ LoopSteps
    \/ TerminalSteps
    \/ WeatherSteps
    \/ MenuSteps
    \/ TableSteps
    \/ CatalogSteps

SpecWeather == Init /\ [][NextWeather]_vars

\* the runs in which neither table view is opened and `w` is never pressed:
\* the MainMenu keys that lead to BillView, and the BillView keys
BillMenuSteps ==
    \/ MainMenuQuit
    \/ MainMenuUp
    \/ MainMenuDown
    \/ MainMenuEnterBill

NextLedger ==
    \/ LoopSteps
    \/ TerminalSteps
    \/ BillMenuSteps
    \/ CatalogSteps
    \/ LedgerSteps

SpecLedger == Init /\ [][NextLedger]_vars

TypeOK ==
    /\ state \in {"MainMenu", "TodoView", "CyberView", "BillView"}
    /\ selected \in 0..(MenuLen - 1)
    /\ force_redraw \in BOOLEAN
    /\ processed \subseteq Paths
    /\ pc \in {"render", "weather", "input", "done", "failed"}

\* ------------------------------------------- scroll_up / scroll_down alone
\* the offsets and row counts the two functions are applied to
ScrollArgs == 0..(MaxRows + 2)

InitScroll ==
    /\ InitApp
    /\ last_msg = NoMsg
    /\ \E o \in ScrollArgs, t \in ScrollArgs :
         call = [fn |-> "args", offset |-> o, total |-> t, result |-> o]

\* scroll_down(&mut offset, total) on the offset the last call left
ScrollDownCall ==
    /\ call' = [fn |-> "scroll_down", offset |-> call.result, total |-> call.total,
                result |-> scroll_down(call.result, call.total)]
    /\ UNCHANGED appVars

\* scroll_up(&mut offset) on the offset the last call left
ScrollUpCall ==
    /\ call' = [fn |-> "scroll_up", offset |-> call.result, total |-> call.total,
                result |-> scroll_up(call.result)]
    /\ UNCHANGED appVars

NextScroll ==
    \/ ScrollDownCall
    \/ ScrollUpCall

SpecScroll == InitScroll /\ [][NextScroll]_vars

\* ------------------------------------------- the row loops alone
\* the rows the two loops are applied to
AmountChars == {"-", ".", "0", "5", "y"}
MarkerChars == {"Z", "S", "x", " "}
Texts(chars, max) == UNION {[1..n -> chars] : n \in 0..max}
AmountTexts == Texts(AmountChars, MaxAmountLen)
Markers == Texts(MarkerChars, MaxMarkerLen)

\* a sheet row (time, type, partner, product, direction, amount) and a CSV
\* record (time, category, partner, account, product, direction, amount);
\* a short one lacks its last cell
WechatRow(flow, amount, short) ==
    SubSeq(<< <<"t">>, <<"c">>, <<" ", "p">>, <<"g">>, flow, amount >>,
           1, IF short THEN 5 ELSE 6)
AlipayRow(flow, amount, short) ==
    SubSeq(<< <<"t">>, <<"c">>, <<" ", "p">>, <<"a">>, <<"g">>, flow, amount >>,
           1, IF short THEN 6 ELSE 7)

InitRows ==
    /\ InitApp
    /\ last_msg = NoMsg
    /\ \E m \in Markers, a \in AmountTexts, short \in BOOLEAN :
         call = [fn |-> "args", flow |-> m, amount |-> a, short |-> short,
                 result |-> EmptyAggregate]

WechatRowsCall ==
    /\ call.fn = "args"
    /\ call' = [call EXCEPT !.fn = "parse_wechat_bill",
                            !.result = wechat_rows(
                               <<WechatRow(call.flow, call.amount, call.short)>>,
                               <<>>, <<>>)]
    /\ UNCHANGED appVars

AlipayRowsCall ==
    /\ call.fn = "args"
    /\ call' = [call EXCEPT !.fn = "parse_alipay_bill",
                            !.result = alipay_rows(
                               <<AlipayRow(call.flow, call.amount, call.short)>>,
                               <<>>, <<>>)]
    /\ UNCHANGED appVars

NextRows ==
    \/ WechatRowsCall
    \/ AlipayRowsCall

SpecRows == InitRows /\ [][NextRows]_vars

\* ------------------------------------------------------------ the report
\* format!("{:.2}", x) of an amount of x hundredths: sign, units, hundredths
Format2(x) == [neg |-> x < 0, whole |-> Abs(x) \div 100, cents |-> Abs(x) % 100]

\* a section of the document: the "no records" line, or the table rows and
\* the total line
Section(entries, total) ==
    IF entries = <<>>
    THEN [records |-> FALSE, rows |-> <<>>, total |-> Format2(0)]
    ELSE [records |-> TRUE,
          rows |-> [i \in 1..Len(entries) |->
                      <<entries[i].partner, entries[i].product,
                        Format2(entries[i].amount)>>],
          total |-> Format2(total)]

to_markdown(agg) ==
    [expenses |-> Section(agg.expenses, total_expense(agg)),
     incomes |-> Section(agg.incomes, total_income(agg)),
     net |-> <<NetLabel(agg), Format2(Abs(net(agg)))>>]

\* the aggregates the report is made of
Amounts == {0 - 2000, 0, 2000, 5000}
EntrySeqs == UNION {[1..n -> {BillEntry("p", "g", a) : a \in Amounts}] : n \in 0..MaxEntries}

InitReport ==
    /\ InitApp
    /\ last_msg = NoMsg
    /\ \E i \in EntrySeqs, e \in EntrySeqs :
         call = [fn |-> "args", agg |-> from_entries(e, i), result |-> <<>>]

\* self.aggregate.to_markdown() in export_reports
ToMarkdownCall ==
    /\ call.fn = "args"
    /\ call' = [call EXCEPT !.fn = "to_markdown", !.result = to_markdown(call.agg)]
    /\ UNCHANGED appVars

\* the net text of the Ok arm of `a` in BillView
NetStatusCall ==
    /\ call.fn = "args"
    /\ call' = [call EXCEPT !.fn = "net_status",
                            !.result = <<NetText(call.agg)[1],
                                         Format2(NetText(call.agg)[2])>>]
    /\ UNCHANGED appVars

NextReport ==
    \/ ToMarkdownCall
    \/ NetStatusCall

SpecReport == InitReport /\ [][NextReport]_vars

\* ------------------------------------------------------ parse_table alone
\* the cells a line is written from: blank, a word, padded words
CellForms == { <<" ">>, <<"a">>, <<" ", "a", " ", "b", "\t">> }
CellLists == UNION {[1..n -> CellForms] : n \in 1..MaxCells}
\* the blanks around line i: the odd lines are indented
LinePad(i) == IF i % 2 = 1 THEN <<" ">> ELSE <<>>

\* the line `|cell|cell|...|` inside its padding
RECURSIVE JoinCells(_)
JoinCells(cells) ==
    IF cells = <<>> THEN <<"|">> ELSE <<"|">> \o Head(cells) \o JoinCells(Tail(cells))
MakeLine(i, cells) == LinePad(i) \o JoinCells(cells) \o LinePad(i)

\* a text, as the cells of each of its lines
TextForms == UNION {[1..n -> CellLists] : n \in 0..MaxLines}

InitTable ==
    /\ InitApp
    /\ last_msg = NoMsg
    /\ \E t \in TextForms, n \in 0..MaxCells :
         call = [fn |-> "args", lines |-> t, min_cols |-> n, result |-> <<>>]

ParseTableCall ==
    /\ call.fn = "args"
    /\ call' = [call EXCEPT
                  !.fn = "parse_table",
                  !.result = parse_table([i \in 1..Len(call.lines) |-> MakeLine(i, call.lines[i])],
                                         call.min_cols)]
    /\ UNCHANGED appVars

NextTable == ParseTableCall

SpecTable == InitTable /\ [][NextTable]_vars

\* ------------------------------------------- a table view and its viewport
\* the rows render_table_generic draws: the 0-based indices start..end-1
\* with start = min(scroll, len) and end = min(start + h, len), h being the
\* height of the area less its two border lines
Visible(len, scroll, h) ==
    LET start == IF scroll < len THEN scroll ELSE len
        end == IF start + h > len THEN len ELSE start + h
    IN {r \in 0..(len - 1) : start <= r /\ r < end}

\* the heights of the viewport, from none to more than the scroll window
Heights == 0..(SCROLL_WINDOW + 1)

\* a table of any length just loaded (offset 0) in a viewport of any height
InitView ==
    /\ InitApp
    /\ last_msg = NoMsg
    /\ \E t \in 0..MaxRows, h \in Heights :
         call = [fn |-> "load_table", total |-> t, h |-> h, before |-> 0, offset |-> 0,
                 vis |-> Visible(t, 0, h)]

\* `j` in the view, then the render pass
ViewDown ==
    /\ call' = [call EXCEPT !.fn = "scroll_down",
                            !.before = call.offset,
                            !.offset = scroll_down(call.offset, call.total),
                            !.vis = Visible(call.total,
                                            scroll_down(call.offset, call.total), call.h)]
    /\ UNCHANGED appVars

\* `k` in the view, then the render pass
ViewUp ==
    /\ call' = [call EXCEPT !.fn = "scroll_up",
                            !.before = call.offset,
                            !.offset = scroll_up(call.offset),
                            !.vis = Visible(call.total, scroll_up(call.offset), call.h)]
    /\ UNCHANGED appVars

NextView ==
    \/ ViewDown
    \/ ViewUp

SpecView == InitView /\ [][NextView]_vars

\* ================================================================ claims
IsPrefix(a, b) == Len(a) <= Len(b) /\ SubSeq(b, 1, Len(a)) = a

\* the step that handles a pressed `a` in BillView
AnalyzeStep ==
    pc = "input" /\ state = "BillView" /\ input'.kind = "press" /\ input'.key = "a"

\* the catalog files outside the processed set, in catalog order
PendingFiles == SelectSeq(files, LAMBDA p : p \notin processed)

\* the entries of seq whose partner is path p
EntriesOf(seq, p) == Cardinality({i \in 1..Len(seq) : seq[i].partner = PartnerOf(p)})

\* C1: an analyze right after a successful analyze over the same catalog
\* changes neither the aggregate nor the processed set and reports "nothing
\* pending" (for a catalog of one file and for any other).
C1_IngestIdempotent ==
    [][(AnalyzeStep /\ last_msg.kind = "done")
         => /\ aggregate' = aggregate
            /\ processed' = processed
            /\ last_msg'.kind = "nothing pending"]_vars

\* a second analyze over a one-file catalog whose first analyze ingested it
C1_Witness ==
    /\ input.key = "a"
    /\ input.prev = "done"
    /\ last_msg.kind = "nothing pending"
    /\ Len(files) = 1
    /\ files[1] \in processed
    /\ ~is_empty(aggregate)

\* C2: the catalog is sorted by path; an analyze that fails has parsed the
\* pending files in catalog order up to the first broken one; the pending
\* files before it are processed and their reports appended, the broken one
\* and the pending ones after it are not processed and add nothing.
C2_PartialProgress ==
    [][(AnalyzeStep /\ last_msg'.kind = "analysis failed")
         => LET pend == PendingFiles
                k == Len(input'.parsed)
                before == {pend[i] : i \in 1..(k - 1)}
                newIn == SubSeq(aggregate'.incomes, Len(aggregate.incomes) + 1,
                                Len(aggregate'.incomes))
                newOut == SubSeq(aggregate'.expenses, Len(aggregate.expenses) + 1,
                                 Len(aggregate'.expenses))
            IN /\ \A i \in 1..(Len(files) - 1) : files[i] < files[i + 1]
               /\ k >= 1
               /\ k <= Len(pend)
               /\ input'.parsed = SubSeq(pend, 1, k)
               /\ processed' = processed \cup before
               /\ \A i \in k..Len(pend) : pend[i] \notin processed'
               /\ \A p \in Paths :
                    ingests'[p] = ingests[p] + (IF p \in before THEN 1 ELSE 0)
               /\ IsPrefix(aggregate.incomes, aggregate'.incomes)
               /\ IsPrefix(aggregate.expenses, aggregate'.expenses)
               /\ \A i \in 1..Len(newIn) : newIn[i].partner \in {PartnerOf(p) : p \in before}
               /\ \A i \in 1..Len(newOut) : newOut[i].partner \in {PartnerOf(p) : p \in before}]_vars

\* a failed analyze that ingested the first file before the second broke
C2_Witness ==
    /\ input.key = "a"
    /\ last_msg.kind = "analysis failed"
    /\ Len(input.parsed) >= 2
    /\ input.parsed[1] \in processed
    /\ input.parsed[2] \notin processed
    /\ EntriesOf(aggregate.incomes, input.parsed[1]) = 1
    /\ EntriesOf(aggregate.incomes, input.parsed[2]) = 0

\* C3: the report of a path is appended at most once in a run, the aggregate
\* holds the entries of a path at most once, and no analyze hands a path of
\* the processed set to a parser or appends for it again.
C3_OncePerPath ==
    [][/\ \A p \in Paths :
            /\ ingests'[p] <= 1
            /\ EntriesOf(aggregate'.incomes, p) <= 1
            /\ EntriesOf(aggregate'.expenses, p) <= 1
            /\ p \in processed => ingests'[p] = ingests[p]
       /\ AnalyzeStep
            => \A i \in 1..Len(input'.parsed) : input'.parsed[i] \notin processed]_vars

\* an analyze over a catalog that lists an already processed file next to a
\* new one: only the new one was parsed
C3_Witness ==
    /\ input.key = "a"
    /\ last_msg.kind = "done"
    /\ Len(files) >= 2
    /\ Len(input.parsed) = 1
    /\ \A i \in 1..Len(files) : files[i] \in processed /\ ingests[files[i]] = 1

\* C4: analyze reports "nothing pending" exactly when every catalog file is
\* in the processed set at the call; the report differs from the one of a
\* parse failure, and then aggregate and processed set are unchanged.
C4_NothingPending ==
    [][AnalyzeStep
         => /\ (last_msg'.kind = "nothing pending")
                  <=> (\A i \in 1..Len(files) : files[i] \in processed)
            /\ last_msg'.kind \in {"done", "analysis failed", "nothing pending"}
            /\ last_msg'.kind = "nothing pending"
                  => /\ aggregate' = aggregate
                     /\ processed' = processed
                     /\ last_msg' # Msg("analysis failed", 0, NoNet)]_vars

\* "nothing pending" for a catalog of several files, all processed
C4_Witness ==
    /\ input.key = "a"
    /\ last_msg.kind = "nothing pending"
    /\ Len(files) >= 2
    /\ \A i \in 1..Len(files) : files[i] \in processed

\* C5: in every step the incomes before the step are a prefix of the incomes
\* after it, likewise the expenses, and the processed set loses no path.
C5_AggregateGrows ==
    [][/\ IsPrefix(aggregate.incomes, aggregate'.incomes)
       /\ IsPrefix(aggregate.expenses, aggregate'.expenses)
       /\ processed \subseteq processed']_vars

\* the entries of two files, ingested by two analyze calls, seen from
\* TodoView
C5_Witness ==
    /\ state = "TodoView"
    /\ Len(aggregate.incomes) >= 2
    /\ Len(aggregate.expenses) >= 2
    /\ aggregate.incomes[1].partner = PartnerOf(2)
    /\ aggregate.incomes[2].partner = PartnerOf(1)

\* C6: in every state 0 <= offset <= max(0, row_count - 10) for both table
\* views.
ScrollInRange(scroll, rows) ==
    /\ 0 <= scroll
    /\ scroll <= (IF Len(rows) - 10 > 0 THEN Len(rows) - 10 ELSE 0)

C6_ScrollInvariant ==
    /\ ScrollInRange(todo_scroll, todo)
    /\ ScrollInRange(cyber_scroll, cyber)

\* TodoView scrolled to the ceiling of a buffer of more than 10 rows
C6_Witness ==
    /\ state = "TodoView"
    /\ Len(todo) > 10
    /\ todo_scroll = Len(todo) - 10
    /\ input.key = "j"

\* C7: scroll_down gives offset + 1 if offset + 10 < total_rows and the offset
\* otherwise (so it never decreases and is idempotent from the ceiling on);
\* scroll_up gives offset - 1 if offset > 0 and 0 for 0.
C7_ScrollFunctions ==
    /\ call.fn = "scroll_down"
         => /\ call.result = (IF call.offset + 10 < call.total
                               THEN call.offset + 1 ELSE call.offset)
            /\ call.result >= call.offset
            /\ call.offset + 10 >= call.total => call.result = call.offset
    /\ call.fn = "scroll_up"
         => /\ call.result = (IF call.offset > 0 THEN call.offset - 1 ELSE 0)
            /\ call.result >= 0

\* scroll_down applied at the ceiling offset + 10 = total_rows
C7_Witness ==
    /\ call.fn = "scroll_down"
    /\ call.offset > 0
    /\ call.offset + 10 = call.total
    /\ call.result = call.offset

\* C8: a step that changes the active view, the menu cursor, a scroll offset,
\* a row buffer, the catalog, the processed set or the aggregate is the
\* handling of a pressed key; a step of the render pass, of the weather poll
\* (a received board included), of the worker thread, or of an iteration
\* whose poll timed out or read a released or repeated key changes none.
C8_Guarded ==
    <<state, selected, todo_scroll, cyber_scroll, todo, cyber, files, processed,
      aggregate>>

C8_OnlyPressChanges ==
    [][/\ C8_Guarded' # C8_Guarded => (pc = "input" /\ input'.kind = "press")
       /\ (pc = "weather" \/ input'.kind = "idle") => C8_Guarded' = C8_Guarded]_vars

\* a board received while TodoView is scrolled down over a loaded buffer,
\* with a catalog refreshed before
C8_Witness ==
    /\ pc = "input"
    /\ force_redraw
    /\ weather_cards = "board"
    /\ state = "TodoView"
    /\ todo_scroll > 0
    /\ files # <<>>

\* the step that handles a pressed `e` in a table view when the editor or
\* the reload after it fails
EditFailStep ==
    /\ pc = "input"
    /\ state \in {"TodoView", "CyberView"}
    /\ input'.kind = "press"
    /\ input'.key = "e"
    /\ input'.io \in {"exit_fail", "spawn_fail", "load_fail"}

\* C9 as stated: a failed edit (or a failed reload after it) in TodoView or
\* CyberView navigates back to MainMenu.
C9_FailedEditGoesToMenu ==
    [][EditFailStep => state' = "MainMenu"]_vars

\* C9 amended: a failed edit (or a failed reload after it) stays in the table
\* view, with that view's row buffer emptied, its scroll offset 0 and the
\* forced-redraw flag set.
C9_FailedEditStaysInView ==
    [][EditFailStep
         => /\ state' = state
            /\ force_redraw'
            /\ state = "TodoView" => (todo' = <<>> /\ todo_scroll' = 0)
            /\ state = "CyberView" => (cyber' = <<>> /\ cyber_scroll' = 0)]_vars

\* TodoView showing an empty buffer after the editor could not be started
C9_Witness ==
    /\ state = "TodoView"
    /\ input.key = "e"
    /\ input.io = "spawn_fail"
    /\ todo = <<>>
    /\ force_redraw

\* C10: in BillView a failed refresh, an analyze that reports a parse error
\* or "nothing pending", a failed export prompt and a failed report write
\* leave the view, the menu cursor, the table views, the catalog and the
\* weather state as they were and set the status line; but for the analyze
\* that failed after a partial ingest they leave the ledger as it was too.
C10_Errors ==
    {"refresh_fail", "analysis failed", "nothing pending", "prompt_fail", "write_fail"}

C10_ErrorsStayInBillView ==
    [][(pc = "input" /\ state = "BillView" /\ input'.kind = "press"
          /\ input'.io \in C10_Errors)
         => /\ state' = "BillView"
            /\ selected' = selected
            /\ UNCHANGED <<tableVars, files, weatherVars>>
            /\ input'.io # "analysis failed" => UNCHANGED <<processed, aggregate, ingests>>
            /\ last_msg'.kind =
                 (CASE input'.io = "refresh_fail" -> "refresh failed"
                    [] input'.io = "analysis failed" -> "analysis failed"
                    [] input'.io = "nothing pending" -> "nothing pending"
                    [] input'.io = "prompt_fail" -> "prompt failed"
                    [] input'.io = "write_fail" -> "export failed")]_vars

\* BillView after a refresh failed over a catalog that lists files
C10_Witness ==
    /\ state = "BillView"
    /\ input.key = "r"
    /\ input.io = "refresh_fail"
    /\ last_msg.kind = "refresh failed"
    /\ files # <<>>

\* the step that handles a pressed key `k` in view `v`
KeyStep(v, k) ==
    pc = "input" /\ state = v /\ input'.kind = "press" /\ input'.key = k

StrictlySorted(seq) == \A i \in 1..(Len(seq) - 1) : seq[i] < seq[i + 1]
SeqRange(seq) == {seq[i] : i \in 1..Len(seq)}

\* C11: every I/O or format error of a user-triggered file operation (a table
\* load on enter, refresh or edit, a catalog refresh on entering BillView or
\* on `r`, analyze, export) sets a status message that reports it and leaves
\* the loop running.
C11_FileErrors ==
    {"load_fail", "refresh_fail", "analysis failed", "prompt_fail", "write_fail"}

C11_ErrorReports ==
    {"load failed", "refresh failed", "analysis failed", "prompt failed",
     "export failed"}

C11_FileErrorsSetMessage ==
    [][(pc = "input" /\ input'.kind = "press" /\ input'.io \in C11_FileErrors)
         => /\ last_msg'.kind \in C11_ErrorReports
            /\ pc' = "render"]_vars

\* the rows of the source the loaders return
C12_SourceRows == [i \in 1..MaxRows |-> << <<"t">>, <<"x">> >>]

\* C12: Enter in MainMenu on Todo (Cyber) replaces that view's buffer by the
\* rows of the source just read, sets its scroll offset to 0 and moves to
\* TodoView (CyberView); Enter on Bill replaces the catalog by the sorted
\* directory listing and moves to BillView; the move happens whether or not
\* the load or the refresh succeeded.
C12_EnterOpensView ==
    [][KeyStep("MainMenu", "Enter")
         => /\ input'.io \in {"ok", "load_fail", "refresh_fail"}
            /\ selected = 0
                 => /\ state' = "TodoView"
                    /\ todo_scroll' = 0
                    /\ input'.io = "ok" => todo' = C12_SourceRows
            /\ selected = 2
                 => /\ state' = "CyberView"
                    /\ cyber_scroll' = 0
                    /\ input'.io = "ok" => cyber' = C12_SourceRows
            /\ selected = 1
                 => /\ state' = "BillView"
                    /\ input'.io = "ok"
                         => /\ SeqRange(files') = input'.listing
                            /\ StrictlySorted(files')]_vars

\* TodoView entered although the load failed, CyberView having been loaded
\* before
C12_Witness ==
    /\ state = "TodoView"
    /\ input.key = "Enter"
    /\ input.io = "load_fail"
    /\ todo = <<>>
    /\ cyber = C12_SourceRows

\* quit in a view goes back to the menu, resets a table view's offset and
\* leaves the loop running; the offsets of the views not shown are 0
C13_QuitReturns ==
    /\ \A v \in {"TodoView", "CyberView", "BillView"} :
         KeyStep(v, "q") => (state' = "MainMenu" /\ pc' = "render")
    /\ KeyStep("TodoView", "q") => todo_scroll' = 0
    /\ KeyStep("CyberView", "q") => cyber_scroll' = 0
    /\ state # "TodoView" => todo_scroll = 0
    /\ state # "CyberView" => cyber_scroll = 0
    /\ state' # "TodoView" => todo_scroll' = 0
    /\ state' # "CyberView" => cyber_scroll' = 0

C13_LoopEnds == pc \notin {"done", "failed"} /\ pc' \in {"done", "failed"}

\* C13 as stated: quit in TodoView, CyberView or BillView returns to MainMenu
\* and never ends the loop; the offset of a table view is 0 whenever another
\* view is active; the loop ends only when q/Esc is pressed in MainMenu.
C13_OnlyMenuQuitEnds ==
    [][/\ C13_QuitReturns
       /\ C13_LoopEnds => KeyStep("MainMenu", "q")]_vars

\* C13 amended: as stated, but the loop ends only when q/Esc is pressed in
\* MainMenu or when clear, draw, poll or read of the loop body returns an
\* error.
C13_MenuQuitOrTerminalErrorEnds ==
    [][/\ C13_QuitReturns
       /\ C13_LoopEnds => (KeyStep("MainMenu", "q") \/ input'.kind = "error")
       /\ KeyStep("MainMenu", "q") => pc' = "done"]_vars

\* back in MainMenu after q in TodoView, which was scrolled over a long
\* buffer
C13_Witness ==
    /\ state = "MainMenu"
    /\ pc = "render"
    /\ input.key = "q"
    /\ ~force_redraw
    /\ Len(todo) > 10
    /\ cyber = <<>>
    /\ todo_scroll = 0

\* C14: the menu cursor is in 0..2 in every state; Up from 0 gives 2, Down
\* from 2 gives 0, otherwise they move it by one; Down after Up gives the
\* cursor back.
C14_MenuWraps ==
    [][/\ selected \in 0..2
       /\ selected' \in 0..2
       /\ KeyStep("MainMenu", "k")
            => /\ selected' = (IF selected = 0 THEN 2 ELSE selected - 1)
               /\ menu_down(selected') = selected
       /\ KeyStep("MainMenu", "j")
            => selected' = (IF selected = 2 THEN 0 ELSE selected + 1)
       /\ menu_down(menu_up(selected)) = selected]_vars

\* the cursor on the last item after Up was pressed on the first
C14_Witness ==
    /\ state = "MainMenu"
    /\ input.kind = "press"
    /\ input.key = "k"
    /\ selected = 2

\* C15: a press of `o` writes a document only for a non-empty aggregate:
\* with no income and no expense entry no document is written (also when
\* files were analyzed and gave no entry), otherwise a successful export
\* writes exactly one document and reports the count 1; export_reports
\* itself returns Ok(0) without writing for an empty aggregate and Ok(1)
\* with one document otherwise; export changes neither the aggregate nor the
\* processed set nor the catalog.
C15_ExportOnlyNonEmpty ==
    [][/\ KeyStep("BillView", "o")
            => /\ UNCHANGED <<aggregate, processed, files>>
               /\ input'.written \in {0, 1}
               /\ input'.written = 1 => aggregate.incomes \o aggregate.expenses # <<>>
               /\ aggregate.incomes \o aggregate.expenses = <<>>
                    => /\ input'.written = 0
                       /\ last_msg'.kind = "analyze first"
               /\ (aggregate.incomes \o aggregate.expenses # <<>> /\ input'.io = "ok")
                    => /\ input'.written = 1
                       /\ last_msg' = Msg("exported", 1, NoNet)
       /\ \A wr \in WriteResults :
            LET x == export_reports(aggregate, wr) IN
              /\ aggregate.incomes \o aggregate.expenses = <<>>
                   => (x.ok /\ x.n = 0 /\ x.written = 0)
              /\ (aggregate.incomes \o aggregate.expenses # <<>> /\ wr = "ok")
                   => (x.ok /\ x.n = 1 /\ x.written = 1)
              /\ x.written <= 1]_vars

\* `o` pressed after an analyze that ingested a file without entries
C15_Witness ==
    /\ state = "BillView"
    /\ input.key = "o"
    /\ input.written = 0
    /\ last_msg.kind = "analyze first"
    /\ processed # {}
    /\ aggregate = EmptyAggregate

\* C16 as stated: in every state pending_count() is the number of catalog
\* files minus the number of paths in the processed set.
C16_PendingIsSizeDifference ==
    pending_count(files, processed) = Len(files) - Cardinality(processed)

\* C16 amended: in every state pending_count() is the number of catalog files
\* outside the processed set, that is the catalog size minus the number of
\* processed paths the catalog still lists; it is the difference of the two
\* sizes while the catalog lists every processed path; the count shown
\* after a refresh is this number.
C16_PendingCountsUnprocessed ==
    /\ pending_count(files, processed)
         = Len(files) - Cardinality(processed \cap SeqRange(files))
    /\ pending_count(files, processed)
         = Cardinality({i \in 1..Len(files) : files[i] \notin processed})
    /\ processed \subseteq SeqRange(files)
         => pending_count(files, processed) = Len(files) - Cardinality(processed)
    /\ last_msg.kind = "pending" => last_msg.n = pending_count(files, processed)

\* a refresh that no longer lists the processed file and lists a new one
C16_Witness ==
    /\ input.key = "r"
    /\ input.io = "ok"
    /\ last_msg = Msg("pending", 1, NoNet)
    /\ Len(files) = 1
    /\ processed # {}
    /\ processed \cap SeqRange(files) = {}

\* a row loop of one of the two parsers was applied to a row with all its
\* cells
C17_Parsed ==
    call.fn \in {"parse_wechat_bill", "parse_alipay_bill"} /\ ~call.short

\* C17: a row with a non-empty direction marker and a parsable amount gives
\* exactly one expense entry and no income entry if the marker contains the
\* expense ideograph only, exactly one income entry and no expense entry if
\* it contains the income ideograph only, exactly one entry in one of the two
\* sequences if it contains both, and no entry otherwise; no row gives an
\* entry in both sequences.
C17_DirectionPartitions ==
    call.fn \in {"parse_wechat_bill", "parse_alipay_bill"}
      => LET e == Len(call.result.expenses)
             i == Len(call.result.incomes)
             hasZ == \E k \in 1..Len(call.flow) : call.flow[k] = "Z"
             hasS == \E k \in 1..Len(call.flow) : call.flow[k] = "S"
         IN /\ e + i <= 1
            /\ (C17_Parsed /\ call.flow # <<>> /\ parse_amount(call.amount).some)
                 => /\ (hasZ /\ ~hasS) => (e = 1 /\ i = 0)
                    /\ (hasS /\ ~hasZ) => (e = 0 /\ i = 1)
                    /\ (hasZ /\ hasS) => e + i = 1
                    /\ (~hasZ /\ ~hasS) => e + i = 0

\* a sheet row whose marker holds both ideographs, classified once
C17_Witness ==
    /\ call.fn = "parse_wechat_bill"
    /\ call.flow = <<"S", "Z">>
    /\ Len(call.result.expenses) + Len(call.result.incomes) = 1

\* C18: every entry a parser puts in the ledger has a non-negative amount,
\* whatever the amount text of the row (texts with `-` included).
C18_AmountsNonNegative ==
    call.fn \in {"parse_wechat_bill", "parse_alipay_bill"}
      => /\ \A k \in 1..Len(call.result.expenses) : call.result.expenses[k].amount >= 0
         /\ \A k \in 1..Len(call.result.incomes) : call.result.incomes[k].amount >= 0

\* the sum of the amounts of the first k entries of seq
RECURSIVE C19_SumTo(_, _)
C19_SumTo(seq, k) == IF k = 0 THEN 0 ELSE C19_SumTo(seq, k - 1) + seq[k].amount

C19_Example ==
    [incomes |-> <<BillEntry("p", "g", 5000)>>, expenses |-> <<BillEntry("p", "g", 2000)>>]

\* C19: net is the sum of the income amounts minus the sum of the expense
\* amounts; the net line of the report and of the status of `a` is labelled
\* "net income" when net >= 0 (0 included) and "net expense" when net < 0 and
\* shows the absolute value of net with two decimals; incomes {50.00} and
\* expenses {20.00} give "net income 30.00".
C19_NetLine ==
    call.fn \in {"to_markdown", "net_status"}
      => LET n == C19_SumTo(call.agg.incomes, Len(call.agg.incomes))
                    - C19_SumTo(call.agg.expenses, Len(call.agg.expenses))
             mag == IF n < 0 THEN 0 - n ELSE n
             line == <<IF n >= 0 THEN "net income" ELSE "net expense",
                       [neg |-> FALSE, whole |-> mag \div 100, cents |-> mag % 100]>>
         IN /\ net(call.agg) = n
            /\ total_income(call.agg) = C19_SumTo(call.agg.incomes, Len(call.agg.incomes))
            /\ total_expense(call.agg) = C19_SumTo(call.agg.expenses, Len(call.agg.expenses))
            /\ call.fn = "to_markdown" => call.result.net = line
            /\ (call.fn = "net_status" /\ call.agg # EmptyAggregate) => call.result = line
            /\ (call.fn = "to_markdown" /\ call.agg = C19_Example)
                 => call.result.net = <<"net income", [neg |-> FALSE, whole |-> 30, cents |-> 0]>>

\* the report of incomes {50.00} and expenses {20.00}
C19_Witness ==
    /\ call.fn = "to_markdown"
    /\ call.agg = C19_Example
    /\ call.result.net[1] = "net income"
    /\ call.result.net[2].whole = 30

\* a cell without the blanks around it
C20_Strip(c) ==
    LET ink == {k \in 1..Len(c) : c[k] \notin {" ", "\t"}} IN
      IF ink = {} THEN <<>>
      ELSE SubSeq(c, CHOOSE k \in ink : \A j \in ink : k <= j,
                     CHOOSE k \in ink : \A j \in ink : k >= j)

\* the non-empty stripped cells of a line, in the order of the line
C20_Cells(cells) ==
    SelectSeq([i \in 1..Len(cells) |-> C20_Strip(cells[i])], LAMBDA x : x # <<>>)

C21_AtMostOneInFlight == workers + Len(chan) <= 1

\* the iteration's one receive: the step that leaves the weather poll
C22_Poll == pc = "weather" /\ pc' # "weather"

\* C22: the loop never waits for weather: the poll of an iteration can always
\* be taken, goes on to the input poll and takes at most one result off the
\* channel.  With nothing queued the cards, the flag and the channel are as
\* they were; with a result queued it replaces the cards and sets
\* force_redraw; in both cases the view stays.  No other step of the loop
\* takes a result or changes the cards.
C22_NonBlockingReceive ==
    [][/\ pc = "weather" => ENABLED (WeatherRecv \/ WeatherNone)
       /\ C22_Poll =>
            /\ pc' = "input"
            /\ state' = state
            /\ chan = <<>> =>
                 /\ weather_cards' = weather_cards
                 /\ force_redraw' = force_redraw
                 /\ chan' = chan
            /\ chan # <<>> =>
                 /\ weather_cards' = Head(chan)
                 /\ chan' = Tail(chan)
                 /\ force_redraw'
       /\ ~C22_Poll =>
            /\ weather_cards' = weather_cards
            /\ Len(chan') >= Len(chan)]_vars

\* a board was received while CyberView was open and a second result was
\* still queued: the cards are replaced, the flag is set, the view stayed
C22_Witness ==
    /\ state = "CyberView"
    /\ pc = "input"
    /\ weather_cards \in WeatherBoards
    /\ force_redraw
    /\ Len(chan) = 1

\* the trimmed fields between the pipes of a line, the empty ones included
C23_Fields(cells) == [i \in 1..Len(cells) |-> C20_Strip(cells[i])]

\* the rows of the lines that have at least n such fields
RECURSIVE C23_Rows(_, _)
C23_Rows(lines, n) ==
    IF lines = <<>> THEN <<>>
    ELSE (IF Len(C23_Fields(Head(lines))) >= n THEN <<C23_Fields(Head(lines))>> ELSE <<>>)
         \o C23_Rows(Tail(lines), n)

\* C23: the cells of a candidate line are the trimmed fields between its
\* pipes, only the empty fields before the leading and after the trailing
\* pipe being dropped: an empty cell between two pipes is kept and the cells
\* keep their column; the line is accepted exactly when it has at least
\* min_columns such cells.
C23_InteriorEmptyKept ==
    call.fn = "parse_table" => call.result = C23_Rows(call.lines, call.min_cols)

\* a file without a structural failure: it can be read, its worksheet (if it
\* is a workbook) is there, it has the header, and the reader returns every
\* record below the header
C24_Structural(ext, f) ==
    /\ f.readable
    /\ ext = "xlsx" => f.sheet = "ok"
    /\ \E i \in 1..Len(f.rows) : f.rows[i].cells # <<>> /\ f.rows[i].cells[1] = <<"T">>
    /\ \A i \in 1..Len(f.rows) : f.rows[i].ok

\* the cell of a row at 0-based column c, without the blanks around it
C24_Cell(cells, c) == IF c + 1 <= Len(cells) THEN C20_Strip(cells[c + 1]) ELSE <<>>

\* a row with a row-level problem: too few fields, no direction, no amount,
\* an amount without a digit, or a direction with neither marker
C24_RowProblem(ext, cells) ==
    LET d == IF ext = "xlsx" THEN 4 ELSE 5 IN
      \/ ext = "csv" /\ Len(cells) < 7
      \/ C24_Cell(cells, d) = <<>>
      \/ C24_Cell(cells, d + 1) = <<>>
      \/ \A k \in 1..Len(C24_Cell(cells, d + 1)) : ~IsDigit(C24_Cell(cells, d + 1)[k])
      \/ \A k \in 1..Len(C24_Cell(cells, d)) : C24_Cell(cells, d)[k] \notin {"Z", "S"}

\* a structurally valid file in which every row below the header has a
\* row-level problem, and there are such rows
C24_AllSkipped(ext, f) ==
    /\ C24_Structural(ext, f)
    /\ LET h == CHOOSE i \in 1..Len(f.rows) :
                  f.rows[i].cells # <<>> /\ f.rows[i].cells[1] = <<"T">>
       IN /\ h < Len(f.rows)
          /\ \A i \in (h + 1)..Len(f.rows) : C24_RowProblem(ext, f.rows[i].cells)

\* C24: row-level problems never fail a parse.  When analyze reads a
\* structurally valid file all of whose rows are skipped, the path is added to
\* the processed set and counted as ingested, the file adds no entry to the
\* aggregate, a successful analyze counts it in the number it reports, and no
\* analyze reads a path that is already in the processed set, so the file is
\* never retried.
C24_SoftSkips ==
    [][AnalyzeStep
         => /\ \A i \in 1..Len(input'.parsed) :
                 LET p == input'.parsed[i] IN
                   /\ p \notin processed
                   /\ C24_AllSkipped(Extension(p), FileOf(p, input'.read[i]))
                        => /\ p \in processed'
                           /\ ingests'[p] = ingests[p] + 1
                           /\ EntriesOf(aggregate'.incomes, p) = 0
                           /\ EntriesOf(aggregate'.expenses, p) = 0
            /\ input'.io = "ok" => last_msg'.n = Len(input'.parsed)
            /\ (\A i \in 1..Len(input'.parsed) :
                  C24_AllSkipped(Extension(input'.parsed[i]),
                                 FileOf(input'.parsed[i], input'.read[i])))
                 => aggregate' = aggregate]_vars

\* an analyze over a workbook and a CSV file whose rows are all skipped: both
\* are processed and counted, the aggregate is still empty
C24_Witness ==
    /\ input.key = "a"
    /\ last_msg = Msg("done", 2, <<"no stats", 0>>)
    /\ Len(input.read) = 2
    /\ \A i \in 1..2 : /\ input.read[i] = "skipped"
                       /\ C24_AllSkipped(Extension(input.parsed[i]),
                                         SkippedFile(input.parsed[i]))
                       /\ input.parsed[i] \in processed
    /\ Extension(input.parsed[1]) # Extension(input.parsed[2])
    /\ is_empty(aggregate)

\* C25: an analyze that succeeds reports n >= 1, the number of catalog files
\* outside the processed set when it was called, and leaves no file pending;
\* an analyze that fails reports no count, although the files it parsed before
\* the broken one are in the processed set.
C25_SuccessCount ==
    [][AnalyzeStep
         => /\ input'.io = "ok"
                 => /\ last_msg'.kind = "done"
                    /\ last_msg'.n >= 1
                    /\ last_msg'.n = Len(PendingFiles)
                    /\ pending_count(files', processed') = 0
            /\ input'.io = "analysis failed"
                 => /\ last_msg' = Msg("analysis failed", 0, NoNet)
                    /\ \A i \in 1..(Len(input'.parsed) - 1) :
                         input'.parsed[i] \in processed' \ processed
                    /\ input'.parsed[Len(input'.parsed)] \notin processed'
                    /\ pending_count(files', processed') >= 1]_vars

\* an analyze that ingested both files of the catalog, of which none was
\* processed before, and reported 2
C25_Witness ==
    /\ input.key = "a"
    /\ input.io = "ok"
    /\ last_msg.kind = "done"
    /\ last_msg.n = 2
    /\ Len(input.parsed) = 2
    /\ pending_count(files, processed) = 0
    /\ ~is_empty(aggregate)

\* the structural failures of the two formats and of the extension test
C26_Failures ==
    { analyze_bill_file("xlsx", UnreadableFile),
      analyze_bill_file("xlsx", BillFile(TRUE, "none", <<>>)),
      analyze_bill_file("xlsx", BillFile(TRUE, "err", <<>>)),
      analyze_bill_file("xlsx", NoHeaderFile),
      analyze_bill_file("csv", UnreadableFile),
      analyze_bill_file("csv", NoHeaderFile),
      analyze_bill_file("csv", BillFile(TRUE, "ok",
                                        <<HeaderRow("csv"), FileRow(FALSE, <<>>)>>)),
      analyze_bill_file("", UnreadableFile),
      analyze_bill_file("txt", UnreadableFile) }

\* C26: every structural failure is an error value of its own, and the error
\* the `a` key of BillView reports is the parse error of the file that broke,
\* so that two kinds of failure are reported differently.
C26_ParseErrorReported ==
    [][(AnalyzeStep /\ input'.io # "ok" /\ input'.parsed # <<>>)
         => LET k == Len(input'.parsed)
                e == analyze_bill_file(Extension(input'.parsed[k]),
                                       FileOf(input'.parsed[k], input'.read[k]))
            IN /\ Cardinality(C26_Failures) = 9
               /\ \A f \in C26_Failures : ~f.ok
               /\ ~e.ok
               /\ last_msg'.kind = e.err]_vars

\* the step that hands the terminal over: `e` in a table view, or `o` in
\* BillView on a non-empty aggregate (the export prompt)
C27_HandOff ==
    /\ pc = "input"
    /\ input'.kind = "press"
    /\ \/ state \in {"TodoView", "CyberView"} /\ input'.key = "e"
       \/ state = "BillView" /\ input'.key = "o" /\ ~is_empty(aggregate)

\* a render pass that went through
C27_RenderPass == pc = "render" /\ pc' = "weather"

\* C27: every hand-off of the terminal (edit in a table view, with the editor
\* succeeding or failing, and the export prompt) sets force_redraw and goes to
\* the next render pass; a render pass clears the terminal exactly when
\* force_redraw is set and leaves the flag reset; between the hand-off and
\* that pass the flag is not reset, for only the top of the loop body resets
\* it.
C27_RedrawAfterHandOff ==
    [][/\ C27_HandOff => force_redraw' /\ pc' = "render"
       /\ C27_RenderPass
            => /\ (input'.io = "cleared") <=> force_redraw
               /\ ~force_redraw'
       /\ (force_redraw /\ ~force_redraw') => pc = "render"]_vars

\* the render pass after an edit whose editor did not start: it cleared
C27_Witness ==
    /\ pc = "weather"
    /\ input.io = "cleared"
    /\ ~force_redraw
    /\ state = "TodoView"
    /\ ~raw_mode

\* C28: whenever open_in_neovim or prompt_export_directory has released the
\* terminal and returns, with success or with an error (the editor not
\* starting or exiting with failure, the prompt failing), the terminal is
\* back in raw mode on the alternate screen.
C28_TerminalReacquired ==
    [][C27_HandOff => raw_mode' /\ alt_screen']_vars

\* the ceiling of the offset of a table of t rows
C29_Ceiling(t) == IF t > SCROLL_WINDOW THEN t - SCROLL_WINDOW ELSE 0

\* every offset up to the ceiling is reached by scrolling down from the one
\* below it, and no scroll key leaves the range
C29_Offsets ==
    /\ call.offset >= 0
    /\ call.offset <= C29_Ceiling(call.total)
    /\ call.fn = "scroll_down"
         => call.offset = IF call.before < C29_Ceiling(call.total)
                          THEN call.before + 1 ELSE call.before
    /\ call.total <= SCROLL_WINDOW => call.offset = 0

\* C29 as stated: the largest offset the scroll keys reach is exactly
\* total_rows - 10 for total_rows > 10 and 0 otherwise; hence in a viewport
\* of height h < 10 no row of index >= total_rows - 10 + h is ever visible.
C29_LastRowsNeverShown ==
    /\ C29_Offsets
    /\ call.h < SCROLL_WINDOW
         => \A r \in call.vis : r < call.total - SCROLL_WINDOW + call.h

\* C29 amended: the same, the unseen rows being those of a table of at least
\* 10 rows; a shorter table shows its first min(h, total_rows) rows, the last
\* row included when h >= total_rows.
C29_TrailingSlack ==
    /\ C29_Offsets
    /\ (call.h < SCROLL_WINDOW /\ call.total >= SCROLL_WINDOW)
         => \A r \in call.vis : r < call.total - SCROLL_WINDOW + call.h
    /\ call.total < SCROLL_WINDOW
         => call.vis = {r \in 0..(call.total - 1) : r < call.h}

\* a table of more than 10 rows scrolled to its ceiling, where one more Down
\* changed nothing, in a viewport of 5 rows
C29_Witness ==
    /\ call.fn = "scroll_down"
    /\ call.total = MaxRows
    /\ call.h = 5
    /\ call.before = MaxRows - SCROLL_WINDOW
    /\ call.offset = MaxRows - SCROLL_WINDOW
    /\ call.vis = {r \in 0..(MaxRows - 1) : r >= call.offset /\ r < call.offset + 5}

\* a step that refreshes the catalog: Enter on the Bill item, or `r` in
\* BillView
C30_RefreshStep ==
    /\ pc = "input"
    /\ input'.kind = "press"
    /\ \/ state = "MainMenu" /\ selected = 1 /\ input'.key = "Enter"
       \/ state = "BillView" /\ input'.key = "r"

\* C30: no step other than the one that handles `a` in BillView changes the
\* aggregate or the processed set: refresh, export, the keys of the other
\* views and leaving and re-entering BillView leave both as they are; a
\* catalog refresh changes, of the bill state, only the catalog, and changes
\* it only to the sorted listing it read.
C30_OnlyAnalyzeChangesLedger ==
    [][/\ (aggregate' # aggregate \/ processed' # processed) => AnalyzeStep
       /\ ingests' # ingests => AnalyzeStep
       /\ C30_RefreshStep
            => /\ aggregate' = aggregate
               /\ processed' = processed
               /\ files' \in {files, SortPaths(input'.listing)}
       /\ files' # files => C30_RefreshStep]_vars

\* BillView entered again after an analyze, a return to MainMenu and a visit
\* to TodoView: the ledger is as the analyze left it, the catalog was re-read
C30_Witness ==
    /\ state = "BillView"
    /\ input.key = "Enter"
    /\ ~is_empty(aggregate)
    /\ processed # {}
    /\ todo # <<>>
    /\ \E p \in processed : \A i \in 1..Len(files) : files[i] # p

\* the file of kind k at path p has a structural failure
C31_Broken(p, k) == ~C24_Structural(Extension(p), FileOf(p, k))

\* the catalog files listed after path b
C31_After(b) ==
    {files[j] : j \in {j \in 1..Len(files) : \E i \in 1..(j - 1) : files[i] = b}}

\* C31: an analyze that reads a structurally broken pending file reports the
\* parse failure, leaves that file pending and ingests no file listed after
\* it.  An analyze called again after a failed one, over the same catalog,
\* starts at the file that broke; while that file is still broken the call
\* reports the failure again and changes neither the aggregate nor the
\* processed set, so the files after the broken one are never ingested.
C31_BrokenFileBlocks ==
    [][AnalyzeStep
         => /\ \A i \in 1..Len(input'.parsed) :
                 C31_Broken(input'.parsed[i], input'.read[i])
                   => LET b == input'.parsed[i] IN
                        /\ i = Len(input'.parsed)
                        /\ last_msg'.kind = "analysis failed"
                        /\ b \notin processed'
                        /\ \A p \in C31_After(b) :
                             /\ p \in processed' => p \in processed
                             /\ ingests'[p] = ingests[p]
                             /\ EntriesOf(aggregate'.incomes, p)
                                  = EntriesOf(aggregate.incomes, p)
                             /\ EntriesOf(aggregate'.expenses, p)
                                  = EntriesOf(aggregate.expenses, p)
            /\ last_msg.kind = "analysis failed"
                 => /\ PendingFiles # <<>>
                    /\ input'.parsed # <<>>
                    /\ input'.parsed[1] = Head(PendingFiles)
                    /\ C31_Broken(input'.parsed[1], input'.read[1])
                         => /\ input'.parsed = <<Head(PendingFiles)>>
                            /\ last_msg'.kind = "analysis failed"
                            /\ aggregate' = aggregate
                            /\ processed' = processed
                            /\ ingests' = ingests]_vars

\* a second analyze over a catalog of two pending files of which the first is
\* broken: it failed again at the first file, the second was never ingested
C31_Witness ==
    /\ input.key = "a"
    /\ input.prev = "analysis failed"
    /\ last_msg.kind = "analysis failed"
    /\ Len(files) = 2
    /\ input.parsed = <<files[1]>>
    /\ C31_Broken(files[1], input.read[1])
    /\ processed = {}
    /\ ingests[files[2]] = 0
    /\ is_empty(aggregate)
====
